---- MODULE Spec2Model ----
(***************************************************************************)
(* Model of app/main.py: a Flask application with two routes ("/" and      *)
(* "/error"), the "/metrics" route registered by PrometheusMetrics, and    *)
(* the after-request hook log_request that writes one JSON record per      *)
(* request to the root logger's single StreamHandler.                      *)
(*                                                                         *)
(* Every request is served by its own thread (app.run serves threaded),    *)
(* so the requests 1 .. MaxReq run concurrently and share only the stream  *)
(* of the handler and the handler's lock.  A record is written to the      *)
(* stream in two chunks, the JSON text and the line terminator.            *)
(*                                                                         *)
(* A 128-bit trace identifier is a sequence of NLimbs limbs of 16 bits,    *)
(* most significant limb first.  A string whose characters matter (the     *)
(* hexadecimal rendering) is a sequence of one-character strings.          *)
(*                                                                         *)
(* Spec is the server with os.uname() and the stream working; SpecF adds   *)
(* an environment that fails the host lookup or the write inside           *)
(* log_request; SpecT serves one request with the trace identifier drawn   *)
(* from the larger set TraceSamples.                                       *)
(***************************************************************************)
EXTENDS Integers, Sequences, FiniteSets, TLC

\* ------------------------------------------------------------------ bounds
MaxReq == 2

\* --------------------------------------------------------------- constants
NLimbs == 8
LimbBase == 65536
HexWidth == 32

Methods == {"GET", "POST"}
Paths == {"/", "/error", "/metrics", "/nope"}
Ips == {"10.0.0.7"}
Hosts == {"pod-a", "pod-b"}

Reqs == 1 .. MaxReq

\* ------------------------------------------------------- trace identifiers
ZeroTrace == [i \in 1 .. NLimbs |-> 0]

\* 0x0123456789abcdeffedcba9876543210
MixedTrace == <<291, 17767, 35243, 52719, 65244, 47768, 30292, 12816>>

\* 0x00000000000000000000000000abcdef
SmallTrace == <<0, 0, 0, 0, 0, 0, 171, 52719>>

\* the identifiers the current span of a request of the server model can
\* carry; ZeroTrace is the invalid span's
Traces == {ZeroTrace, SmallTrace}

\* 16^k, the least identifier of k + 1 hexadecimal digits
Pow16Trace(k) ==
    [i \in 1 .. NLimbs |-> IF i = NLimbs - (k \div 4) THEN 16 ^ (k % 4) ELSE 0]

\* the identifiers of the formatting model: every limb 0 or 0xffff (this
\* includes 0 and 2^128 - 1), every 16^k (this includes 1), and two mixed
\* values
TraceSamples ==
    [1 .. NLimbs -> {0, LimbBase - 1}]
        \cup {Pow16Trace(k) : k \in 0 .. (HexWidth - 1)}
        \cup {MixedTrace, SmallTrace}

\* ------------------------------------------------------ format(t, '032x')
HexDigits == <<"0", "1", "2", "3", "4", "5", "6", "7",
               "8", "9", "a", "b", "c", "d", "e", "f">>

IsZero(t) == \A i \in 1 .. Len(t) : t[i] = 0

\* t // 16 by long division: the remainder carried into limb i is
\* t[i - 1] % 16
Div16(t) ==
    [i \in 1 .. Len(t) |->
        ((IF i = 1 THEN 0 ELSE t[i - 1] % 16) * LimbBase + t[i]) \div 16]

\* t % 16
Mod16(t) == t[Len(t)] % 16

\* the digits of t in base 16, without padding (the 'x' presentation type)
RECURSIVE HexOf(_)
HexOf(t) ==
    IF IsZero(t) THEN <<>>
    ELSE HexOf(Div16(t)) \o <<HexDigits[Mod16(t) + 1]>>

Hex(t) == IF IsZero(t) THEN <<"0">> ELSE HexOf(t)

\* right-align s in a field of w characters filled with "0" (the '0w' part)
ZeroPad(s, w) ==
    IF Len(s) >= w THEN s ELSE [i \in 1 .. (w - Len(s)) |-> "0"] \o s

\* variant: format(t, 'x'), no zero fill
FormatUnpadded(t) == Hex(t)

\* format(t, '032x')
Format032x(t) == ZeroPad(Hex(t), HexWidth)

\* Python's None in the trace_id field
None == <<"None">>

\* the trace identifier before log_request has looked it up
NotRead == <<>>

\* variant: the identifier is formatted even when it is 0
TraceIdHexAlways(t) == Format032x(t)

\* log_request: format(trace_id, '032x') if trace_id != 0 else None
TraceIdHex(t) == IF ~IsZero(t) THEN Format032x(t) ELSE None

\* ------------------------------------------------------------- responses
NoReq == [method |-> "-", path |-> "-", ip |-> "-", fault |-> "none"]

NoResp == [status |-> 0, body |-> "-"]

Response(status, body) == [status |-> status, body |-> body]

\* variant: the greeting names a fixed host
HelloConstHost(host) ==
    Response(200, "Hello, World! I am running on host: " \o "localhost" \o "\n")

\* hello_world: the str it returns becomes a 200 response
hello_world(host) ==
    Response(200, "Hello, World! I am running on host: " \o host \o "\n")

\* variant: the status is left out of the return
TriggerError200 == Response(200, "This is a test error")

\* trigger_error: return "This is a test error", 500
trigger_error == Response(500, "This is a test error")

\* the response of the route PrometheusMetrics(app) registers
metrics_view == Response(200, "<exposition>")

\* the responses Flask gives where no view runs
NotFound == Response(404, "Not Found")

MethodNotAllowed == Response(405, "Method Not Allowed")

InternalServerError == Response(500, "Internal Server Error")

\* the routes of the application: rule -> endpoint
Endpoint(path) ==
    CASE path = "/" -> "hello_world"
      [] path = "/error" -> "trigger_error"
      [] path = "/metrics" -> "metrics"
      [] OTHER -> "none"

\* the endpoint the request is dispatched to, "404" or "405": a route
\* declared without methods= answers GET
Route(method, path) ==
    IF Endpoint(path) = "none" THEN "404"
    ELSE IF method # "GET" THEN "405"
    ELSE Endpoint(path)

\* the response the routing and the view function produce for a request
Dispatch(method, path, host) ==
    CASE Route(method, path) = "hello_world" -> hello_world(host)
      [] Route(method, path) = "trigger_error" -> trigger_error
      [] Route(method, path) = "metrics" -> metrics_view
      [] Route(method, path) = "405" -> MethodNotAllowed
      [] OTHER -> NotFound

\* ----------------------------------------------------------------- state
VARIABLES
    hostname,   \* os.uname()[1]
    pc,         \* the position of each request's thread
    req,        \* flask.request of each thread
    trace_id,   \* the trace_id log_request read from the current span
    resp,       \* the response object of each request
    sent,       \* the response transmitted to the caller
    stream,     \* what logHandler has written to its stream, in chunks
    lock        \* the holder of logHandler's lock, 0 when free

vars == <<hostname, pc, req, trace_id, resp, sent, stream, lock>>

Init ==
    /\ hostname \in Hosts
    /\ pc = [r \in Reqs |-> "new"]
    /\ req = [r \in Reqs |-> NoReq]
    /\ trace_id = [r \in Reqs |-> NotRead]
    /\ resp = [r \in Reqs |-> NoResp]
    /\ sent = [r \in Reqs |-> NoResp]
    /\ stream = <<>>
    /\ lock = 0

\* ------------------------------------------------------------ log records
\* variant: the record reports 200 whatever the response
RequestRecordStatus200(r, t) ==
    [levelname |-> "INFO", message |-> "Request processed",
     method |-> req[r].method, path |-> req[r].path,
     status |-> 200, hostname |-> hostname,
     ip |-> req[r].ip, trace_id |-> TraceIdHex(t)]

\* the record log_request passes to logger.info, t the trace_id of the
\* current span
RequestRecord(r, t) ==
    [levelname |-> "INFO", message |-> "Request processed",
     method |-> req[r].method, path |-> req[r].path,
     status |-> resp[r].status, hostname |-> hostname,
     ip |-> req[r].ip, trace_id |-> TraceIdHex(t)]

\* the record trigger_error passes to logger.error
ErrorRecord ==
    [levelname |-> "ERROR", message |-> "Specific error logic triggered",
     custom_field |-> "something_bad"]

\* one write to the stream by the thread of request rid: the text of the
\* record rec, or the line terminator
Msg(rid, rec) == [rid |-> rid, part |-> "msg", rec |-> rec]

Terminator(rid) == [rid |-> rid, part |-> "nl"]

\* variant: a handler that emits without its lock
Unlocked(r) == TRUE

\* logHandler emits under its lock, one record at a time
HandlerFree(r) == lock = 0

\* variant: log_request without the "/metrics" test
NeverSkip(path) == FALSE

\* log_request: if request.path == '/metrics': return response
SkipLogging(path) == path = "/metrics"

\* variant: log_request registered with before_request
BeforeRequestHook(r) == pc[r] = "dispatch"

\* @app.after_request: log_request runs once the view has returned
AfterRequestHook(r) == pc[r] = "after"

\* variant: log_request without its return statement
ReturnNoResp(response) == NoResp

\* log_request: return response
LogRequestResult(response) == response

\* --------------------------------------------------------------- actions
\* a request arrives and gets a thread; F is the set of faults the
\* environment may inject into the observer of this request
Arrive(r, F) ==
    /\ pc[r] = "new"
    /\ r > 1 => pc[r - 1] # "new"
    /\ \E m \in Methods, p \in Paths, a \in Ips, f \in F :
          req' = [req EXCEPT
                    ![r] = [method |-> m, path |-> p, ip |-> a, fault |-> f]]
    /\ pc' = [pc EXCEPT ![r] = "dispatch"]
    /\ UNCHANGED <<hostname, trace_id, resp, sent, stream, lock>>

\* routing and every view but trigger_error: the response is produced
Handle(r) ==
    /\ pc[r] = "dispatch"
    /\ Route(req[r].method, req[r].path) # "trigger_error"
    /\ resp' = [resp EXCEPT
                  ![r] = Dispatch(req[r].method, req[r].path, hostname)]
    /\ pc' = [pc EXCEPT ![r] = "after"]
    /\ UNCHANGED <<hostname, req, trace_id, sent, stream, lock>>

\* trigger_error, logger.error(...): the handler takes its lock and writes
\* the text of the record
TriggerErrorLog(r) ==
    /\ pc[r] = "dispatch"
    /\ Route(req[r].method, req[r].path) = "trigger_error"
    /\ HandlerFree(r)
    /\ lock' = r
    /\ stream' = Append(stream, Msg(r, ErrorRecord))
    /\ pc' = [pc EXCEPT ![r] = "error_emit"]
    /\ UNCHANGED <<hostname, req, trace_id, resp, sent>>

\* trigger_error: the terminator is written, the lock released, and the
\* view returns "This is a test error", 500
TriggerErrorReturn(r) ==
    /\ pc[r] = "error_emit"
    /\ stream' = Append(stream, Terminator(r))
    /\ lock' = IF lock = r THEN 0 ELSE lock
    /\ resp' = [resp EXCEPT
                  ![r] = Dispatch(req[r].method, req[r].path, hostname)]
    /\ pc' = [pc EXCEPT ![r] = "after"]
    /\ UNCHANGED <<hostname, req, trace_id, sent>>

\* log_request on "/metrics": the response is returned, nothing is logged
LogRequestSkip(r) ==
    /\ AfterRequestHook(r)
    /\ SkipLogging(req[r].path)
    /\ resp' = [resp EXCEPT ![r] = LogRequestResult(resp[r])]
    /\ pc' = [pc EXCEPT ![r] = "respond"]
    /\ UNCHANGED <<hostname, req, trace_id, sent, stream, lock>>

\* log_request, up to the write of the record's text: the trace_id of the
\* current span is read (one of T), the record is built, and the handler
\* takes its lock and writes the text
LogRequestEmit(r, T) ==
    /\ AfterRequestHook(r)
    /\ ~SkipLogging(req[r].path)
    /\ req[r].fault = "none"
    /\ HandlerFree(r)
    /\ \E t \in T :
          /\ trace_id' = [trace_id EXCEPT ![r] = t]
          /\ stream' = Append(stream, Msg(r, RequestRecord(r, t)))
    /\ lock' = r
    /\ pc' = [pc EXCEPT ![r] = "request_emit"]
    /\ UNCHANGED <<hostname, req, resp, sent>>

\* log_request: the terminator is written, the lock released, and the
\* response is returned
LogRequestReturn(r) ==
    /\ pc[r] = "request_emit"
    /\ stream' = Append(stream, Terminator(r))
    /\ lock' = IF lock = r THEN 0 ELSE lock
    /\ resp' = [resp EXCEPT ![r] = LogRequestResult(resp[r])]
    /\ pc' = [pc EXCEPT ![r] = "respond"]
    /\ UNCHANGED <<hostname, req, trace_id, sent>>

\* the response is transmitted to the caller
Send(r) ==
    /\ pc[r] = "respond"
    /\ sent' = [sent EXCEPT ![r] = resp[r]]
    /\ pc' = [pc EXCEPT ![r] = "sent"]
    /\ UNCHANGED <<hostname, req, trace_id, resp, stream, lock>>

Next ==
    \E r \in Reqs :
       \/ Arrive(r, {"none"})
       \/ Handle(r)
       \/ TriggerErrorLog(r)
       \/ TriggerErrorReturn(r)
       \/ LogRequestSkip(r)
       \/ LogRequestEmit(r, Traces)
       \/ LogRequestReturn(r)
       \/ Send(r)

Spec == Init /\ [][Next]_vars

\* ------------------------------------------------- the observer's faults
Faults == {"none", "uname", "write"}

\* log_request when os.uname() raises while the record is built: nothing in
\* log_request catches it, so it leaves the after-request hook; Flask
\* answers 500 Internal Server Error, and the hook, run again for that
\* response, raises again and is dropped
LogRequestRaise(r, T) ==
    /\ AfterRequestHook(r)
    /\ ~SkipLogging(req[r].path)
    /\ req[r].fault = "uname"
    /\ \E t \in T : trace_id' = [trace_id EXCEPT ![r] = t]
    /\ resp' = [resp EXCEPT ![r] = InternalServerError]
    /\ pc' = [pc EXCEPT ![r] = "respond"]
    /\ UNCHANGED <<hostname, req, sent, stream, lock>>

\* log_request when the write to the stream raises: the handler reports the
\* error itself, the record is lost and log_request returns the response
LogRequestWriteFail(r, T) ==
    /\ AfterRequestHook(r)
    /\ ~SkipLogging(req[r].path)
    /\ req[r].fault = "write"
    /\ HandlerFree(r)
    /\ \E t \in T : trace_id' = [trace_id EXCEPT ![r] = t]
    /\ resp' = [resp EXCEPT ![r] = LogRequestResult(resp[r])]
    /\ pc' = [pc EXCEPT ![r] = "respond"]
    /\ UNCHANGED <<hostname, req, sent, stream, lock>>

NextF ==
    \E r \in Reqs :
       \/ Arrive(r, Faults)
       \/ Handle(r)
       \/ TriggerErrorLog(r)
       \/ TriggerErrorReturn(r)
       \/ LogRequestSkip(r)
       \/ LogRequestEmit(r, Traces)
       \/ LogRequestRaise(r, Traces)
       \/ LogRequestWriteFail(r, Traces)
       \/ LogRequestReturn(r)
       \/ Send(r)

\* the server with an environment that may fail the observer's lookups
SpecF == Init /\ [][NextF]_vars

\* one request at a time, its span's trace_id drawn from TraceSamples
NextT ==
    \E r \in {1} :
       \/ Arrive(r, {"none"})
       \/ Handle(r)
       \/ TriggerErrorLog(r)
       \/ TriggerErrorReturn(r)
       \/ LogRequestSkip(r)
       \/ LogRequestEmit(r, TraceSamples)
       \/ LogRequestReturn(r)
       \/ Send(r)

SpecT == Init /\ [][NextT]_vars

\* ------------------------------------------------------ reading the log
\* the positions of the stream where the text of a "Request processed"
\* record starts, those of request r, and those of r's explicit ERROR record
RequestMsgs ==
    {i \in 1 .. Len(stream) :
        /\ stream[i].part = "msg"
        /\ stream[i].rec.message = "Request processed"}

RequestMsgsOf(r) ==
    {i \in 1 .. Len(stream) :
        /\ stream[i].rid = r
        /\ stream[i].part = "msg"
        /\ stream[i].rec.message = "Request processed"}

ErrorMsgsOf(r) ==
    {i \in 1 .. Len(stream) :
        /\ stream[i].rid = r
        /\ stream[i].part = "msg"
        /\ stream[i].rec.levelname = "ERROR"
        /\ "custom_field" \in DOMAIN stream[i].rec}

\* the record starting at i is a whole line of the stream
WholeLine(i) ==
    /\ i < Len(stream)
    /\ stream[i + 1].part = "nl"
    /\ stream[i + 1].rid = stream[i].rid

\* log_request has returned for request r
Completed(r) == pc[r] \in {"respond", "sent"}

Logged(r) == req[r].path # "/metrics"

\* ---------------------------------------------------------------- claims
\* C1: every completed request whose path is not "/metrics" (routed or
\* not, whatever its method) has exactly one "Request processed" record,
\* a whole line, whose method, path and status are the request's method,
\* the request's path and the status of the response returned for it.
RequestLoggedOnce ==
    \A r \in Reqs :
       /\ Cardinality(RequestMsgsOf(r)) <= 1
       /\ (Completed(r) /\ Logged(r)) =>
             /\ Cardinality(RequestMsgsOf(r)) = 1
             /\ \A i \in RequestMsgsOf(r) :
                   /\ WholeLine(i)
                   /\ stream[i].rec.method = req[r].method
                   /\ stream[i].rec.path = req[r].path
                   /\ stream[i].rec.status = resp[r].status
                   /\ pc[r] = "sent" => stream[i].rec.status = sent[r].status

\* a POST to an unrouted path was answered 404 and logged with 404, next
\* to a logged GET /error
RequestLoggedOnceWitness ==
    \E r, q \in Reqs :
       /\ pc[r] = "sent" /\ pc[q] = "sent"
       /\ req[r].method = "POST" /\ req[r].path = "/nope"
       /\ sent[r].status = 404
       /\ \E i \in RequestMsgsOf(r) : stream[i].rec.status = 404
       /\ req[q].path = "/error"
       /\ \E i \in RequestMsgsOf(q) : stream[i].rec.status = 500

\* C2: no record is ever written for a request whose path is "/metrics",
\* and the number of "Request processed" records of completed requests is
\* the number of completed requests whose path is not "/metrics".
MetricsNeverLogged ==
    /\ \A r \in Reqs : req[r].path = "/metrics" => RequestMsgsOf(r) = {}
    /\ \A i \in RequestMsgs : stream[i].rec.path # "/metrics"
    /\ Cardinality({i \in RequestMsgs : Completed(stream[i].rid)})
          = Cardinality({r \in Reqs : Completed(r) /\ Logged(r)})

\* a GET /metrics and another request were both answered, one record
MetricsNeverLoggedWitness ==
    \E r, q \in Reqs :
       /\ pc[r] = "sent" /\ pc[q] = "sent"
       /\ req[r].path = "/metrics" /\ req[r].method = "GET"
       /\ sent[r].status = 200
       /\ req[q].path = "/"
       /\ Cardinality(RequestMsgs) = 1

\* what C3 says of the answered request r
ErrorContract(r) ==
    /\ sent[r].status = 500
    /\ sent[r].body = "This is a test error"
    /\ Cardinality(ErrorMsgsOf(r)) = 1
    /\ Cardinality(RequestMsgsOf(r)) = 1
    /\ \A i \in RequestMsgsOf(r) : stream[i].rec.status = 500
    /\ Cardinality({i \in 1 .. Len(stream) :
                       stream[i].part = "msg" /\ stream[i].rid = r}) = 2

\* C3, as stated: every request to "/error" is answered 500 with body
\* "This is a test error" and leaves two records, the explicit ERROR
\* record with custom_field and the automatic one reporting 500.
EveryErrorRequestIs500 ==
    \A r \in Reqs :
       (pc[r] = "sent" /\ req[r].path = "/error") => ErrorContract(r)

\* C3, amended: every GET request to "/error" is answered 500 with body
\* "This is a test error" and leaves two records, the explicit ERROR
\* record with custom_field and the automatic one reporting 500.
GetErrorIs500 ==
    \A r \in Reqs :
       (pc[r] = "sent" /\ req[r].path = "/error" /\ req[r].method = "GET")
          => ErrorContract(r)

GetErrorIs500Witness ==
    \E r \in Reqs :
       /\ pc[r] = "sent" /\ req[r].path = "/error" /\ req[r].method = "GET"
       /\ sent[r] = [status |-> 500, body |-> "This is a test error"]
       /\ ErrorMsgsOf(r) # {} /\ RequestMsgsOf(r) # {}

\* what C4 says of the answered request r
HelloContract(r) ==
    /\ sent[r].status = 200
    /\ sent[r].body = "Hello, World! I am running on host: " \o hostname \o "\n"
    /\ \A i \in RequestMsgsOf(r) :
          /\ stream[i].rec.hostname = hostname
          /\ sent[r].body = "Hello, World! I am running on host: "
                               \o stream[i].rec.hostname \o "\n"

\* C4, as stated: every request to "/" is answered 200 with the greeting
\* naming the host, and its automatic record carries the same host.
EveryRootRequestIs200 ==
    \A r \in Reqs : (pc[r] = "sent" /\ req[r].path = "/") => HelloContract(r)

\* C4, amended: every GET request to "/" is answered 200 with the greeting
\* naming the host, and its automatic record carries the same host.
GetRootIs200 ==
    \A r \in Reqs :
       (pc[r] = "sent" /\ req[r].path = "/" /\ req[r].method = "GET")
          => HelloContract(r)

GetRootIs200Witness ==
    \E r \in Reqs :
       /\ pc[r] = "sent" /\ req[r].path = "/" /\ req[r].method = "GET"
       /\ hostname = "pod-b"
       /\ sent[r].body = "Hello, World! I am running on host: pod-b\n"
       /\ \E i \in RequestMsgsOf(r) : stream[i].rec.hostname = "pod-b"

\* the 32-character string of zeros
AllZeroString == [i \in 1 .. HexWidth |-> "0"]

\* C5: a record written while the current span's trace_id is 0 has the
\* trace_id None, and no record has the all-zero string as trace_id.
NoTraceIsNull ==
    \A i \in RequestMsgs :
       /\ trace_id[stream[i].rid] = ZeroTrace => stream[i].rec.trace_id = None
       /\ stream[i].rec.trace_id # AllZeroString

NoTraceIsNullWitness ==
    \E i \in RequestMsgs :
       /\ trace_id[stream[i].rid] = ZeroTrace
       /\ stream[i].rec.trace_id = None
       /\ WholeLine(i)

\* the characters of lowercase hexadecimal
LowerHex == {HexDigits[k] : k \in 1 .. 16}

\* the value of a hexadecimal character
DigitValue(c) == CHOOSE d \in 0 .. 15 : HexDigits[d + 1] = c

\* int(s, 16) of a string of HexWidth characters, as limbs
HexValue(s) ==
    [k \in 1 .. NLimbs |->
        DigitValue(s[4 * k - 3]) * 4096 + DigitValue(s[4 * k - 2]) * 256
           + DigitValue(s[4 * k - 1]) * 16 + DigitValue(s[4 * k])]

\* C6: a record written while the current span's trace_id is t # 0 has as
\* trace_id exactly 32 characters of lowercase hexadecimal whose value in
\* base 16 is t (so that distinct identifiers give distinct strings).
TraceIs32LowerHex ==
    \A i \in RequestMsgs :
       trace_id[stream[i].rid] # ZeroTrace =>
          /\ Len(stream[i].rec.trace_id) = HexWidth
          /\ \A k \in 1 .. HexWidth : stream[i].rec.trace_id[k] \in LowerHex
          /\ HexValue(stream[i].rec.trace_id) = trace_id[stream[i].rid]

\* 0xabcdef was logged as 26 zeros and "abcdef"
TraceIs32LowerHexWitness ==
    \E i \in RequestMsgs :
       /\ trace_id[stream[i].rid] = SmallTrace
       /\ stream[i].rec.trace_id =
             [k \in 1 .. 26 |-> "0"] \o <<"a", "b", "c", "d", "e", "f">>
       /\ WholeLine(i)

\* C7: a failure inside log_request (the host lookup, the write of the
\* record) does not reach the response: every answered request got the
\* status and body its handler produced.
ObserverFailureKeepsResponse ==
    \A r \in Reqs :
       pc[r] = "sent" =>
          sent[r] = Dispatch(req[r].method, req[r].path, hostname)

\* C8: under any interleaving the stream is a sequence of whole lines, but
\* for a last line being written by the holder of the lock; every
\* completed request not to "/metrics" has exactly one line, and the
\* fields of each line are those of the request that wrote it.
LinesNeverInterleave ==
    /\ \A i \in 1 .. Len(stream) :
          /\ stream[i].part = "msg" =>
                /\ i = Len(stream) => lock = stream[i].rid
                /\ i < Len(stream) => WholeLine(i)
          /\ stream[i].part = "nl" =>
                /\ i > 1
                /\ stream[i - 1].part = "msg"
                /\ stream[i - 1].rid = stream[i].rid
    /\ \A r \in Reqs :
          (Completed(r) /\ Logged(r)) =>
             Cardinality({i \in RequestMsgsOf(r) : WholeLine(i)}) = 1
    /\ \A i \in RequestMsgs :
          LET r == stream[i].rid
          IN  /\ stream[i].rec.method = req[r].method
              /\ stream[i].rec.path = req[r].path
              /\ stream[i].rec.status = resp[r].status
              /\ stream[i].rec.ip = req[r].ip
              /\ stream[i].rec.trace_id = None <=> trace_id[r] = ZeroTrace

\* two requests were in the logger at once (one writing, one waiting for
\* the lock) and both lines came out whole
LinesNeverInterleaveWitness ==
    \E r, q \in Reqs :
       /\ r # q
       /\ pc[r] = "request_emit" /\ lock = r
       /\ pc[q] = "after" /\ Logged(q)
       /\ req[q].path = "/error" /\ req[q].method = "GET"
       /\ \E i \in ErrorMsgsOf(q) : WholeLine(i)

\* C9: a "Request processed" record is written only once the handler has
\* produced the response, a response is transmitted only once the record
\* of its request is a whole line, and the explicit record of a GET
\* /error precedes the "Request processed" record of the same request.
HandlerThenLogThenSend ==
    /\ \A i \in RequestMsgs :
          LET r == stream[i].rid
          IN  /\ resp[r] # NoResp
              /\ ~WholeLine(i) => sent[r] = NoResp
              /\ Route(req[r].method, req[r].path) = "trigger_error" =>
                    \E j \in ErrorMsgsOf(r) : j < i /\ WholeLine(j)
    /\ \A r \in Reqs :
          (sent[r] # NoResp /\ Logged(r)) =>
             \E i \in RequestMsgsOf(r) : WholeLine(i)
    /\ \A r \in Reqs : \A i \in RequestMsgsOf(r), j \in ErrorMsgsOf(r) : j < i

HandlerThenLogThenSendWitness ==
    \E r \in Reqs :
       /\ pc[r] = "sent"
       /\ \E i \in RequestMsgsOf(r), j \in ErrorMsgsOf(r) : j < i

====
